---- MODULE Spec2Model ----
(***************************************************************************)
(* Model of the ESP32 Modbus sensor simulator (src/src/main.cpp): the      *)
(* parameter store, the holding-register table, the menu state machine    *)
(* and the loop() that reconciles them.                                    *)
(*                                                                         *)
(* Numbers.  The C++ floats (value, minVal, maxVal, step) are represented  *)
(* exactly, as integers counting hundredths: 7.00f is 700, a step of 1.0f  *)
(* is 100 and a step of 0.01f is 1.  The arithmetic of the code (divide by *)
(* step, lroundf, cast to uint16_t, multiply by step, add or subtract one  *)
(* step, clamp, compare with step/2) is carried out on these integers, so  *)
(* the rounding error of float32 operations is not part of the model.      *)
(*                                                                         *)
(* Control.  loop() is modelled by its six sub-steps in program order,     *)
(* pc naming the sub-step that runs next:                                  *)
(*   task -> btnSelect -> btnBack -> inbound -> encoder -> outbound -> task*)
(***************************************************************************)
EXTENDS Integers, Sequences, FiniteSets, TLC

(***************************************************************************)
(* Bounds of the model (not program constants).                            *)
(***************************************************************************)
\* input events (button presses, encoder movements) per run
MaxEvents == 5
\* remote (Modbus master) register writes per run
MaxRemoteWrites == 1
\* largest encoder movement, in counts, between two reads
MaxDelta == 2
\* duration of a short loop tick in ms; a long tick lasts twice as long
TickMs == 200

(***************************************************************************)
(* Program constants.                                                      *)
(***************************************************************************)
\* line 530: millis() - tSync > 300
SYNC_MS == 300
\* uint16_t holds 0 .. 65535
UINT16_MOD == 65536
\* enum class SerialField
BAUD == 0
PARITY == 1
DATABITS == 2
STOPBITS == 3

\* Param params[] (lines 81-88), floats written in hundredths
params ==
  << [name |-> "pH",    minVal |-> 0, maxVal |-> 1400,   step |-> 1,   reg |-> 1, value |-> 700],
     [name |-> "TDS",   minVal |-> 0, maxVal |-> 100800, step |-> 100, reg |-> 2, value |-> 50000],
     [name |-> "TSS",   minVal |-> 0, maxVal |-> 100000, step |-> 100, reg |-> 3, value |-> 10000],
     [name |-> "COD",   minVal |-> 0, maxVal |-> 130000, step |-> 100, reg |-> 4, value |-> 20000],
     [name |-> "BOD",   minVal |-> 0, maxVal |-> 35000,  step |-> 100, reg |-> 5, value |-> 5000],
     [name |-> "DO",    minVal |-> 0, maxVal |-> 2000,   step |-> 1,   reg |-> 6, value |-> 800],
     [name |-> "NH3-N", minVal |-> 0, maxVal |-> 100000, step |-> 1,   reg |-> 7, value |-> 500] >>

PARAM_COUNT == Len(params)

\* indices 0 .. PARAM_COUNT-1 of params[], as in the C++ code
ParamIdx == 0 .. (PARAM_COUNT - 1)

\* params[i] for a 0-based index i
P(i) == params[i + 1]

\* the holding-register addresses created in setup()
RegAddrs == { P(i).reg : i \in ParamIdx }

BAUDS == << 1200, 2400, 4800, 9600, 19200, 38400, 57600, 115200 >>

BAUD_COUNT == Len(BAUDS)

\* SerialCfg scfg = {9600, 8, 'N', 1}
scfgInit == [baud |-> 9600, dataBits |-> 8, parity |-> "N", stopBits |-> 1]

(***************************************************************************)
(* Utilities.                                                              *)
(***************************************************************************)
clamp(v, lo, hi) == IF v < lo THEN lo ELSE (IF v > hi THEN hi ELSE v)

fabsf(x) == IF x < 0 THEN -x ELSE x

\* lroundf(num/den) for den > 0: nearest integer, halves away from zero
lroundf(num, den) ==
  IF num >= 0 THEN (2 * num + den) \div (2 * den)
              ELSE -((2 * (-num) + den) \div (2 * den))

\* uint16_t toReg(const Param &p), for parameter i holding value v
toReg(i, v) ==
  LET scaledNum == IF v < 0 THEN 0 ELSE v
  IN  lroundf(scaledNum, P(i).step) % UINT16_MOD

\* float fromReg(const Param &p, uint16_t regval)
fromReg(i, regval) == regval * P(i).step

(***************************************************************************)
(* State.                                                                  *)
(***************************************************************************)
VARIABLES
  pc,           \* the sub-step of loop() that runs next
  screen,       \* Screen screen
  listIndex,    \* int listIndex
  editIndex,    \* int editIndex
  serialField,  \* SerialField serialField
  scfg,         \* SerialCfg scfg (the pending serial configuration)
  link,         \* the settings last passed to RS485.begin by rs485Reinit
  value,        \* params[i].value, i in ParamIdx, in hundredths
  hreg,         \* the holding-register table, by register address
  encDiff,      \* enc.read() - encPrev
  elapsed,      \* millis() - tSync, saturated just above SYNC_MS
  selHeld,      \* Select is held down and its long press not yet detected
  heldFromHome, \* the press being held went down in Home and no other input came since
  nEvents,      \* input events delivered so far
  nWrites,      \* remote register writes so far
  remote,       \* the remote write mb.task stored in this tick, if any
  ev,           \* the input event the last sub-step handled
  edited,       \* the local edit not yet disturbed by an input or remote write
  adjust,       \* the register table as it was when ParamEdit first adjusted,
                \* with the remote writes made since
  stage,        \* sync passes completed since the last input or remote write
  codec         \* the codec functions applied to one parameter value

vars ==
  << pc, screen, listIndex, editIndex, serialField, scfg, link, value, hreg,
     encDiff, elapsed, selHeld, heldFromHome, nEvents, nWrites, remote, ev,
     edited, adjust, stage, codec >>

\* no remote write in this tick
NoRemote == [i |-> -1, x |-> 0]

\* no undisturbed local edit
NoEdit == [i |-> -1, v |-> 0, pushed |-> FALSE]

\* the table setup() preloads: mb.addHreg(params[i].reg, toReg(params[i]))
hregInit == [a \in RegAddrs |->
               LET i == CHOOSE j \in ParamIdx : P(j).reg = a
               IN  toReg(i, P(i).value)]

\* the codec functions are not being exercised
NoCodec == [at |-> "off", i |-> 0, v |-> 0, raw |-> 0, back |-> 0]

\* ParamEdit has adjusted nothing since it was entered
NoAdjust == [on |-> FALSE, before |-> hregInit]

\* the state when setup() returns; the first loop() starts at least 120 ms
\* after boot (delay(100) + delay(20)) with tSync = 0
Init ==
  /\ pc = "task"
  /\ screen = "HOME"
  /\ listIndex = 0
  /\ editIndex = 0
  /\ serialField = BAUD
  /\ scfg = scfgInit
  /\ link = scfgInit
  /\ value = [i \in ParamIdx |-> P(i).value]
  /\ hreg = hregInit
  /\ encDiff = 0
  /\ elapsed \in {TickMs, SYNC_MS + 1}
  /\ selHeld = FALSE
  /\ heldFromHome = FALSE
  /\ nEvents = 0
  /\ nWrites = 0
  /\ remote = NoRemote
  /\ ev = "none"
  /\ edited = NoEdit
  /\ adjust = NoAdjust
  /\ stage = 0
  /\ codec = NoCodec

(***************************************************************************)
(* The environment's choices.                                              *)
(***************************************************************************)
\* raw values a remote master writes to parameter i's register: zero and
\* the first raw past maxVal (the largest raw when maxVal/step does not fit
\* 16 bits)
RawChoices(i) ==
  LET top == P(i).maxVal \div P(i).step + 1
  IN  { 0, IF top < UINT16_MOD THEN top ELSE UINT16_MOD - 1 }

\* encoder movements between two reads: one count or MaxDelta counts
EncChoices == { -MaxDelta, -1, 1, MaxDelta }

\* tick durations in ms
Dts == { TickMs, 2 * TickMs }

Min(a, b) == IF a < b THEN a ELSE b

(***************************************************************************)
(* loop(), line 416: mb.task().  The transport serves at most one remote   *)
(* write; the time the previous tick took and the encoder movement since   *)
(* the last read are sampled here as well.                                 *)
(***************************************************************************)
MbTask ==
  /\ pc = "task"
  /\ \E dt \in Dts :
       elapsed' = Min(elapsed + dt, SYNC_MS + 1)
  /\ \E i \in ParamIdx \cup {-1} :
       IF i = -1
       THEN /\ remote' = NoRemote
            /\ UNCHANGED << hreg, nWrites >>
       ELSE /\ nWrites < MaxRemoteWrites
            /\ \E x \in RawChoices(i) :
                 /\ remote' = [i |-> i, x |-> x]
                 /\ hreg' = [hreg EXCEPT ![P(i).reg] = x]
            /\ nWrites' = nWrites + 1
  /\ \E d \in EncChoices \cup {0} :
       /\ d # 0 => nEvents < MaxEvents
       /\ encDiff' = encDiff + d
       /\ nEvents' = IF d # 0 THEN nEvents + 1 ELSE nEvents
       /\ stage' = IF d # 0 \/ remote'.i # -1 THEN 0 ELSE stage
       /\ edited' = IF edited.pushed \/ d # 0 \/ remote'.i = edited.i
                    THEN NoEdit ELSE edited
  /\ adjust' = IF remote'.i # -1 /\ adjust.on
               THEN [adjust EXCEPT !.before[P(remote'.i).reg] = remote'.x]
               ELSE adjust
  /\ ev' = "none"
  /\ pc' = "btnSelect"
  /\ UNCHANGED codec
  /\ heldFromHome' = (heldFromHome /\ encDiff' = encDiff)
  /\ UNCHANGED << screen, listIndex, editIndex, serialField, scfg, link, value,
                  selHeld >>

(***************************************************************************)
(* Input handlers (lines 301-376).  Each states the new value of every     *)
(* variable a handler can touch; drawing is left out.                      *)
(***************************************************************************)
\* mutant of rs485Reinit: the port is reopened with the boot settings
rs485ReinitDefaults ==
  link' = scfgInit

\* void rs485Reinit(): RS485.begin(scfg...), mb.begin, mb.slave(1)
rs485Reinit ==
  link' = scfg

\* mutant of onSelect: applying the serial settings reloads the register
\* table as setup() does
onSelectReloadsTable ==
  CASE screen = "HOME" ->
         /\ screen' = "PARAM_LIST"
         /\ listIndex' = 0
         /\ encDiff' = 0
         /\ UNCHANGED << editIndex, serialField, hreg, link >>
    [] screen = "PARAM_LIST" ->
         /\ editIndex' = listIndex
         /\ screen' = "PARAM_EDIT"
         /\ encDiff' = 0
         /\ UNCHANGED << listIndex, serialField, hreg, link >>
    [] screen = "PARAM_EDIT" ->
         /\ hreg' = [hreg EXCEPT ![P(editIndex).reg] = toReg(editIndex, value[editIndex])]
         /\ screen' = "PARAM_LIST"
         /\ UNCHANGED << listIndex, editIndex, serialField, encDiff, link >>
    [] screen = "SERIAL_MENU" ->
         /\ screen' = "SERIAL_EDIT"
         /\ encDiff' = 0
         /\ UNCHANGED << listIndex, editIndex, serialField, hreg, link >>
    [] screen = "SERIAL_EDIT" ->
         /\ rs485Reinit
         /\ hreg' = hregInit
         /\ screen' = "SERIAL_MENU"
         /\ UNCHANGED << listIndex, editIndex, serialField, encDiff >>

\* void onSelect(Button2 &)
onSelect ==
  CASE screen = "HOME" ->
         /\ screen' = "PARAM_LIST"
         /\ listIndex' = 0
         /\ encDiff' = 0
         /\ UNCHANGED << editIndex, serialField, hreg, link >>
    [] screen = "PARAM_LIST" ->
         /\ editIndex' = listIndex
         /\ screen' = "PARAM_EDIT"
         /\ encDiff' = 0
         /\ UNCHANGED << listIndex, serialField, hreg, link >>
    [] screen = "PARAM_EDIT" ->
         /\ hreg' = [hreg EXCEPT ![P(editIndex).reg] = toReg(editIndex, value[editIndex])]
         /\ screen' = "PARAM_LIST"
         /\ UNCHANGED << listIndex, editIndex, serialField, encDiff, link >>
    [] screen = "SERIAL_MENU" ->
         /\ screen' = "SERIAL_EDIT"
         /\ encDiff' = 0
         /\ UNCHANGED << listIndex, editIndex, serialField, hreg, link >>
    [] screen = "SERIAL_EDIT" ->
         /\ rs485Reinit
         /\ screen' = "SERIAL_MENU"
         /\ UNCHANGED << listIndex, editIndex, serialField, encDiff, hreg >>

\* mutant of onBack: Back leaves every screen for Home
onBackHome ==
  /\ screen' = "HOME"
  /\ UNCHANGED << listIndex, editIndex, serialField, encDiff, hreg, link >>

\* mutant of onBack: Back in ParamEdit writes the register as Select does
onBackSaves ==
  /\ screen' = CASE screen = "HOME" -> "HOME"
                 [] screen = "PARAM_LIST" -> "HOME"
                 [] screen = "PARAM_EDIT" -> "PARAM_LIST"
                 [] screen = "SERIAL_MENU" -> "HOME"
                 [] screen = "SERIAL_EDIT" -> "SERIAL_MENU"
  /\ hreg' = IF screen = "PARAM_EDIT"
             THEN [hreg EXCEPT ![P(editIndex).reg] = toReg(editIndex, value[editIndex])]
             ELSE hreg
  /\ UNCHANGED << listIndex, editIndex, serialField, encDiff, link >>

\* void onBack(Button2 &)
onBack ==
  /\ screen' = CASE screen = "HOME" -> "HOME"
                 [] screen = "PARAM_LIST" -> "HOME"
                 [] screen = "PARAM_EDIT" -> "PARAM_LIST"
                 [] screen = "SERIAL_MENU" -> "HOME"
                 [] screen = "SERIAL_EDIT" -> "SERIAL_MENU"
  /\ UNCHANGED << listIndex, editIndex, serialField, encDiff, hreg, link >>

\* void onSelectLong(Button2 &)
onSelectLong ==
  IF screen = "HOME"
  THEN /\ screen' = "SERIAL_MENU"
       /\ serialField' = BAUD
       /\ encDiff' = 0
       /\ UNCHANGED << listIndex, editIndex, hreg, link >>
  ELSE UNCHANGED << screen, listIndex, editIndex, serialField, encDiff, hreg, link >>

\* what a delivered button event does to the bookkeeping of local edits; the
\* event counts as n new inputs (a long press belongs to a press already counted)
Delivered(e, n) ==
  /\ ev' = e
  /\ nEvents' = nEvents + n
  /\ stage' = 0
  /\ edited' = NoEdit
  /\ adjust' = IF screen' = "PARAM_EDIT" /\ screen = "PARAM_EDIT" THEN adjust ELSE NoAdjust

\* no button event in this sub-step
Idle ==
  /\ ev' = "none"
  /\ UNCHANGED << screen, listIndex, editIndex, serialField, encDiff, hreg, link,
                  nEvents, stage, edited, adjust >>

(***************************************************************************)
(* loop(), line 419: btnSelect.loop().  Button2 calls the pressed handler  *)
(* when the button goes down and the long-click-detected handler once,     *)
(* LongClickTime (600 ms) into the same press (setup(), lines 388-390).    *)
(***************************************************************************)
BtnSelectIdle ==
  /\ pc = "btnSelect"
  /\ Idle
  /\ selHeld' \in {selHeld, FALSE}
  /\ pc' = "btnBack"
  /\ UNCHANGED codec
  /\ heldFromHome' = (heldFromHome /\ selHeld')
  /\ UNCHANGED << scfg, value, elapsed, nWrites, remote >>

BtnSelectPressed ==
  /\ pc = "btnSelect"
  /\ ~selHeld
  /\ nEvents < MaxEvents
  /\ onSelect
  /\ Delivered("select", 1)
  /\ selHeld' \in BOOLEAN
  /\ pc' = "btnBack"
  /\ UNCHANGED codec
  /\ heldFromHome' = (screen = "HOME" /\ selHeld')
  /\ UNCHANGED << scfg, value, elapsed, nWrites, remote >>

BtnSelectLong ==
  /\ pc = "btnSelect"
  /\ selHeld
  /\ onSelectLong
  /\ Delivered("long", 0)
  /\ selHeld' = FALSE
  /\ pc' = "btnBack"
  /\ UNCHANGED codec
  /\ heldFromHome' = FALSE
  /\ UNCHANGED << scfg, value, elapsed, nWrites, remote >>

(***************************************************************************)
(* loop(), line 420: btnBack.loop().                                       *)
(***************************************************************************)
BtnBackIdle ==
  /\ pc = "btnBack"
  /\ Idle
  /\ pc' = "inbound"
  /\ UNCHANGED codec
  /\ UNCHANGED heldFromHome
  /\ UNCHANGED << scfg, value, elapsed, selHeld, nWrites, remote >>

BtnBackPressed ==
  /\ pc = "btnBack"
  /\ nEvents < MaxEvents
  /\ onBack
  /\ Delivered("back", 1)
  /\ pc' = "inbound"
  /\ UNCHANGED codec
  /\ heldFromHome' = FALSE
  /\ UNCHANGED << scfg, value, elapsed, selHeld, nWrites, remote >>

(***************************************************************************)
(* loop(), lines 422-437: inbound sync, registers -> values.               *)
(***************************************************************************)
\* mutant of InboundAccepts: the threshold is a whole step
InboundAcceptsFullStep(i, newVal, cur) ==
  fabsf(newVal - cur) > P(i).step

\* fabsf(newVal - params[i].value) > (params[i].step * 0.5f)
InboundAccepts(i, newVal, cur) ==
  2 * fabsf(newVal - cur) > P(i).step

\* mutant of InboundValue: the accepted value is not clamped
InboundValueNoClamp(i, cur, rv) ==
  LET newVal == fromReg(i, rv)
  IN  IF 2 * fabsf(newVal - cur) > P(i).step THEN newVal ELSE cur

\* params[i].value after the body of the for loop has run for parameter i
InboundValue(i, cur, rv) ==
  LET newVal == fromReg(i, rv)
  IN  IF InboundAccepts(i, newVal, cur)
      THEN clamp(newVal, P(i).minVal, P(i).maxVal)
      ELSE cur

Inbound ==
  /\ pc = "inbound"
  /\ value' = [i \in ParamIdx |-> InboundValue(i, value[i], hreg[P(i).reg])]
  /\ stage' = IF stage = 1 THEN 2 ELSE stage
  /\ ev' = "none"
  /\ pc' = "encoder"
  /\ UNCHANGED codec
  /\ UNCHANGED heldFromHome
  /\ UNCHANGED << screen, listIndex, editIndex, serialField, scfg, link, hreg,
                  encDiff, elapsed, selHeld, nEvents, nWrites, remote, edited,
                  adjust >>

(***************************************************************************)
(* loop(), lines 439-526: rotary encoder.                                  *)
(***************************************************************************)
\* (diff > 0 ? 1 : -1)
Sign(diff) == IF diff > 0 THEN 1 ELSE -1

\* mutant of ListRotate: the cursor moves by the whole encoder difference
ListRotateByDiff(li, diff) ==
  clamp(li + diff, 0, PARAM_COUNT - 1)

\* PARAM_LIST: the new listIndex
ListRotate(li, diff) ==
  clamp(li + Sign(diff), 0, PARAM_COUNT - 1)

\* mutant of EditRotate: the stepped value is not clamped
EditRotateNoClamp(i, cur, diff) ==
  cur + (IF diff > 0 THEN P(i).step ELSE -P(i).step)

\* PARAM_EDIT: the new params[editIndex].value
EditRotate(i, cur, diff) ==
  LET delta == IF diff > 0 THEN P(i).step ELSE -P(i).step
      nv == clamp(cur + delta, P(i).minVal, P(i).maxVal)
  IN  IF 2 * fabsf(nv - cur) >= P(i).step THEN nv ELSE cur

\* SERIAL_MENU: the new serialField
MenuRotate(sf, diff) ==
  clamp(sf + Sign(diff), 0, 3)

\* mutant of BaudRotate: the index wraps around the table instead of stopping
BaudRotateWraps(baud, diff) ==
  LET hits == { k \in 0 .. (BAUD_COUNT - 1) : BAUDS[k + 1] = baud }
      found == IF hits = {} THEN 0
               ELSE CHOOSE k \in hits : \A m \in hits : k <= m
      idx == (found + Sign(diff) + BAUD_COUNT) % BAUD_COUNT
  IN  BAUDS[idx + 1]

\* SERIAL_EDIT, BAUD: the new scfg.baud
BaudRotate(baud, diff) ==
  LET hits == { k \in 0 .. (BAUD_COUNT - 1) : BAUDS[k + 1] = baud }
      found == IF hits = {} THEN 0
               ELSE CHOOSE k \in hits : \A m \in hits : k <= m
      idx == clamp(found + Sign(diff), 0, BAUD_COUNT - 1)
  IN  BAUDS[idx + 1]

\* mutant of ParityRotate: the position stops at either end of the order
ParityRotateStops(parity, diff) ==
  LET order == << "N", "E", "O" >>
      hits == { k \in 0 .. 2 : order[k + 1] = parity }
      ci == IF hits = {} THEN 3 ELSE CHOOSE k \in hits : TRUE
  IN  order[clamp(ci + Sign(diff), 0, 2) + 1]

\* SERIAL_EDIT, PARITY: the new scfg.parity
ParityRotate(parity, diff) ==
  LET order == << "N", "E", "O" >>
      hits == { k \in 0 .. 2 : order[k + 1] = parity }
      ci == IF hits = {} THEN 3 ELSE CHOOSE k \in hits : TRUE
  IN  order[((ci + Sign(diff) + 3) % 3) + 1]

\* mutant of SerialRotate: a rotation toggles dataBits and stopBits whatever
\* its direction
SerialRotateToggles(cfg, sf, diff) ==
  CASE sf = BAUD     -> [cfg EXCEPT !.baud = BaudRotate(cfg.baud, diff)]
    [] sf = PARITY   -> [cfg EXCEPT !.parity = ParityRotate(cfg.parity, diff)]
    [] sf = DATABITS -> [cfg EXCEPT !.dataBits = IF cfg.dataBits = 7 THEN 8 ELSE 7]
    [] OTHER         -> [cfg EXCEPT !.stopBits = IF cfg.stopBits = 1 THEN 2 ELSE 1]

\* mutant of SerialRotate: the DataBits branch runs on into the StopBits one
SerialRotateFallsThrough(cfg, sf, diff) ==
  CASE sf = BAUD     -> [cfg EXCEPT !.baud = BaudRotate(cfg.baud, diff)]
    [] sf = PARITY   -> [cfg EXCEPT !.parity = ParityRotate(cfg.parity, diff)]
    [] sf = DATABITS -> [cfg EXCEPT !.dataBits = IF diff > 0 THEN 8 ELSE 7,
                                    !.stopBits = IF diff > 0 THEN 2 ELSE 1]
    [] OTHER         -> [cfg EXCEPT !.stopBits = IF diff > 0 THEN 2 ELSE 1]

\* SERIAL_EDIT: the new scfg
SerialRotate(cfg, sf, diff) ==
  CASE sf = BAUD     -> [cfg EXCEPT !.baud = BaudRotate(cfg.baud, diff)]
    [] sf = PARITY   -> [cfg EXCEPT !.parity = ParityRotate(cfg.parity, diff)]
    [] sf = DATABITS -> [cfg EXCEPT !.dataBits = IF diff > 0 THEN 8 ELSE 7]
    [] OTHER         -> [cfg EXCEPT !.stopBits = IF diff > 0 THEN 2 ELSE 1]

\* now == encPrev: nothing to handle
EncoderStill ==
  /\ pc = "encoder"
  /\ encDiff = 0
  /\ ev' = "none"
  /\ pc' = "outbound"
  /\ UNCHANGED codec
  /\ UNCHANGED heldFromHome
  /\ UNCHANGED << screen, listIndex, editIndex, serialField, scfg, link, value,
                  hreg, encDiff, elapsed, selHeld, nEvents, nWrites, remote,
                  edited, adjust, stage >>

\* now != encPrev: encPrev = now, then the active screen's binding
EncoderTurned ==
  /\ pc = "encoder"
  /\ encDiff # 0
  /\ encDiff' = 0
  /\ listIndex' = IF screen = "PARAM_LIST"
                  THEN ListRotate(listIndex, encDiff) ELSE listIndex
  /\ value' = IF screen = "PARAM_EDIT"
              THEN [value EXCEPT ![editIndex] = EditRotate(editIndex, @, encDiff)]
              ELSE value
  /\ serialField' = IF screen = "SERIAL_MENU"
                    THEN MenuRotate(serialField, encDiff) ELSE serialField
  /\ scfg' = IF screen = "SERIAL_EDIT"
             THEN SerialRotate(scfg, serialField, encDiff) ELSE scfg
  /\ edited' = IF value' # value
               THEN [i |-> editIndex, v |-> value'[editIndex], pushed |-> FALSE]
               ELSE edited
  /\ adjust' = IF value' # value /\ ~adjust.on
               THEN [on |-> TRUE, before |-> hreg]
               ELSE adjust
  /\ ev' = "rot"
  /\ pc' = "outbound"
  /\ UNCHANGED codec
  /\ UNCHANGED heldFromHome
  /\ UNCHANGED << screen, editIndex, link, hreg, elapsed, selHeld, nEvents,
                  nWrites, remote, stage >>

(***************************************************************************)
(* loop(), lines 528-540: outbound sync, values -> registers, throttled.   *)
(***************************************************************************)
\* mutant of OutboundTable: the pass reads the registers and writes none
OutboundTableStale(vals, table) ==
  table

\* mutant of OutboundTable: a register is only ever raised by the pass
OutboundTableRaiseOnly(vals, table) ==
  [a \in RegAddrs |->
     LET i == CHOOSE j \in ParamIdx : P(j).reg = a
         cur == table[a]
         need == toReg(i, vals[i])
     IN  IF cur < need THEN need ELSE cur]

\* the register table after the for loop of the outbound pass
OutboundTable(vals, table) ==
  [a \in RegAddrs |->
     LET i == CHOOSE j \in ParamIdx : P(j).reg = a
         cur == table[a]
         need == toReg(i, vals[i])
     IN  IF cur # need THEN need ELSE cur]

\* mutant of OutboundPass: the pass runs in every tick
OutboundPassUnthrottled ==
  /\ pc = "outbound"
  /\ elapsed' = 0
  /\ hreg' = OutboundTable(value, hreg)
  /\ stage' = IF stage = 0 THEN 1 ELSE stage
  /\ edited' = IF edited.i # -1 THEN [edited EXCEPT !.pushed = TRUE] ELSE edited
  /\ ev' = "none"
  /\ pc' = "task"
  /\ UNCHANGED codec
  /\ UNCHANGED heldFromHome
  /\ UNCHANGED << screen, listIndex, editIndex, serialField, scfg, link, value,
                  encDiff, selHeld, nEvents, nWrites, remote, adjust >>

\* millis() - tSync > 300
OutboundPass ==
  /\ pc = "outbound"
  /\ elapsed > SYNC_MS
  /\ elapsed' = 0
  /\ hreg' = OutboundTable(value, hreg)
  /\ stage' = IF stage = 0 THEN 1 ELSE stage
  /\ edited' = IF edited.i # -1 THEN [edited EXCEPT !.pushed = TRUE] ELSE edited
  /\ ev' = "none"
  /\ pc' = "task"
  /\ UNCHANGED codec
  /\ UNCHANGED heldFromHome
  /\ UNCHANGED << screen, listIndex, editIndex, serialField, scfg, link, value,
                  encDiff, selHeld, nEvents, nWrites, remote, adjust >>

\* the throttle has not elapsed
OutboundSkip ==
  /\ pc = "outbound"
  /\ ~(elapsed > SYNC_MS)
  /\ ev' = "none"
  /\ pc' = "task"
  /\ UNCHANGED codec
  /\ UNCHANGED heldFromHome
  /\ UNCHANGED << screen, listIndex, editIndex, serialField, scfg, link, value,
                  hreg, encDiff, elapsed, selHeld, nEvents, nWrites, remote,
                  edited, adjust, stage >>

(***************************************************************************)
(* The program.                                                            *)
(***************************************************************************)
Next ==
  \/ MbTask
  \/ BtnSelectIdle
  \/ BtnSelectPressed
  \/ BtnSelectLong
  \/ BtnBackIdle
  \/ BtnBackPressed
  \/ Inbound
  \/ EncoderStill
  \/ EncoderTurned
  \/ OutboundPass
  \/ OutboundSkip

Spec == Init /\ [][Next]_vars

\* every variable stays in its type
TypeOK ==
  /\ pc \in {"task", "btnSelect", "btnBack", "inbound", "encoder", "outbound"}
  /\ screen \in {"HOME", "PARAM_LIST", "PARAM_EDIT", "SERIAL_MENU", "SERIAL_EDIT"}
  /\ listIndex \in Int
  /\ editIndex \in Int
  /\ serialField \in BAUD .. STOPBITS
  /\ value \in [ParamIdx -> Int]
  /\ hreg \in [RegAddrs -> 0 .. (UINT16_MOD - 1)]
  /\ encDiff \in -MaxDelta .. MaxDelta
  /\ elapsed \in 0 .. (SYNC_MS + 1)
  /\ selHeld \in BOOLEAN
  /\ heldFromHome \in BOOLEAN
  /\ nEvents \in 0 .. MaxEvents
  /\ nWrites \in 0 .. MaxRemoteWrites
  /\ stage \in 0 .. 2

(***************************************************************************)
(* The register codec on its own: toReg and fromReg (lines 164-176)        *)
(* applied to one parameter holding any value of [minVal, maxVal] taken    *)
(* from a grid, the midpoint included.                                     *)
(***************************************************************************)
\* points per parameter range
CodecGrid == 8

\* the values of parameter i the codec is applied to
CodecValues(i) ==
  LET lo == P(i).minVal
      hi == P(i).maxVal
  IN  { lo + (k * (hi - lo)) \div CodecGrid : k \in 0 .. CodecGrid }
        \cup { (lo + hi) \div 2, lo + P(i).step, hi - P(i).step }

InitCodec ==
  /\ pc = "codec"
  /\ screen = "HOME"
  /\ listIndex = 0
  /\ editIndex = 0
  /\ serialField = BAUD
  /\ scfg = scfgInit
  /\ link = scfgInit
  /\ value = [i \in ParamIdx |-> P(i).value]
  /\ hreg = hregInit
  /\ encDiff = 0
  /\ elapsed = 0
  /\ selHeld = FALSE
  /\ heldFromHome = FALSE
  /\ nEvents = 0
  /\ nWrites = 0
  /\ remote = NoRemote
  /\ ev = "none"
  /\ edited = NoEdit
  /\ adjust = NoAdjust
  /\ stage = 0
  /\ \E i \in ParamIdx : \E v \in CodecValues(i) :
       codec = [at |-> "value", i |-> i, v |-> v, raw |-> 0, back |-> 0]

\* raw = toReg(p) with p.value = v
CodecToReg ==
  /\ codec.at = "value"
  /\ codec' = [codec EXCEPT !.at = "raw", !.raw = toReg(codec.i, codec.v)]
  /\ UNCHANGED << pc, screen, listIndex, editIndex, serialField, scfg, link,
                  value, hreg, encDiff, elapsed, selHeld, heldFromHome, nEvents,
                  nWrites, remote, ev, edited, adjust, stage >>

\* back = fromReg(p, raw)
CodecFromReg ==
  /\ codec.at = "raw"
  /\ codec' = [codec EXCEPT !.at = "back", !.back = fromReg(codec.i, codec.raw)]
  /\ UNCHANGED << pc, screen, listIndex, editIndex, serialField, scfg, link,
                  value, hreg, encDiff, elapsed, selHeld, heldFromHome, nEvents,
                  nWrites, remote, ev, edited, adjust, stage >>

NextCodec ==
  \/ CodecToReg
  \/ CodecFromReg

SpecCodec == InitCodec /\ [][NextCodec]_vars

(***************************************************************************)
(* A second starting point for the claims about the cursors and the serial *)
(* configuration.  Seven list positions and eight baud rates take more     *)
(* inputs to walk through than MaxEvents allows from boot, so the loop is  *)
(* started in the navigation states the walk arrives at: every place the   *)
(* two cursors can be in the parameter screens (onSelect makes editIndex   *)
(* equal listIndex on the way into ParamEdit, line 313), and every serial  *)
(* configuration the SerialEdit rotation can produce, in both serial       *)
(* screens (the way into SerialMenu passes onSelect's Home case, which     *)
(* zeroes listIndex, line 307).  No parameter has been edited, no remote   *)
(* write is pending or to come, an outbound pass has just run, and two     *)
(* inputs of the budget are spent.                                         *)
(***************************************************************************)
\* every value SerialRotate can give the four fields of scfg
SerialCfgs ==
  [ baud : { BAUDS[k] : k \in 1 .. BAUD_COUNT },
    dataBits : {7, 8},
    parity : {"N", "E", "O"},
    stopBits : {1, 2} ]

InitNav ==
  /\ pc = "task"
  /\ \/ /\ screen \in {"HOME", "PARAM_LIST"}
        /\ listIndex \in ParamIdx
        /\ editIndex \in ParamIdx
        /\ serialField = BAUD
        /\ scfg = scfgInit
     \/ /\ screen = "PARAM_EDIT"
        /\ listIndex \in ParamIdx
        /\ editIndex = listIndex
        /\ serialField = BAUD
        /\ scfg = scfgInit
     \/ /\ screen \in {"SERIAL_MENU", "SERIAL_EDIT"}
        /\ listIndex = 0
        /\ editIndex = 0
        /\ serialField \in {BAUD, PARITY, DATABITS, STOPBITS}
        /\ scfg \in SerialCfgs
  /\ link = scfgInit
  /\ value = [i \in ParamIdx |-> P(i).value]
  /\ hreg = hregInit
  /\ encDiff = 0
  /\ elapsed = 0
  /\ selHeld = FALSE
  /\ heldFromHome = FALSE
  /\ nEvents = 2
  /\ nWrites = MaxRemoteWrites
  /\ remote = NoRemote
  /\ ev = "none"
  /\ edited = NoEdit
  /\ adjust = NoAdjust
  /\ stage = 0
  /\ codec = NoCodec

SpecNav == InitNav /\ [][Next]_vars

(***************************************************************************)
(* Claims.                                                                 *)
(***************************************************************************)
\* C1: a local edit reaches the register table.  While no remote write to
\* the edited parameter's register and no further input event has occurred
\* since a rotation in ParamEdit set params[editIndex].value to v', the value
\* is still v', and once the next outbound pass has run the register holds
\* toReg(v'), however many ticks ran in between.
C1_LocalEditReachesRegister ==
  edited.i # -1 =>
    /\ value[edited.i] = edited.v
    /\ edited.pushed => hreg[P(edited.i).reg] = toReg(edited.i, edited.v)

\* C2: a remote write is not clobbered within its tick.  When the inbound
\* pass of a tick is about to run, the register mb.task wrote in that tick
\* still holds the remote raw value x, and when the pass has run the value is
\* clamp(x*step) if x*step passed the hysteresis test.
C2_RemoteWriteNotClobbered ==
  remote.i # -1 =>
    /\ pc = "inbound" => hreg[P(remote.i).reg] = remote.x
    /\ pc = "encoder" =>
         LET i == remote.i
             newVal == fromReg(i, remote.x)
         IN  \/ value[i] = clamp(newVal, P(i).minVal, P(i).maxVal)
             \/ 2 * fabsf(newVal - value[i]) <= P(i).step

\* C3: every parameter stays within its bounds, minVal <= value <= maxVal.
C3_Bounds ==
  \A i \in ParamIdx : P(i).minVal <= value[i] /\ value[i] <= P(i).maxVal

\* C3 witness: the inbound pass has absorbed a remote raw value that decodes
\* past maxVal, and the value sits at maxVal.
C3_Witness ==
  /\ pc = "encoder"
  /\ \E i \in ParamIdx :
       /\ remote = [i |-> i, x |-> P(i).maxVal \div P(i).step + 1]
       /\ value[i] = P(i).maxVal

\* every register holds toReg(value) and the inbound pass would change nothing
Settled ==
  \A i \in ParamIdx :
    /\ hreg[P(i).reg] = toReg(i, value[i])
    /\ InboundValue(i, value[i], hreg[P(i).reg]) = value[i]

\* C4: no oscillation.  Once an outbound pass and then an inbound pass have
\* run with no remote write and no input event since, every register equals
\* toReg(value) and the inbound pass is a no-op; from then on, as long as no
\* write or input arrives, neither a value nor a register changes.
C4_NoOscillation ==
  [][ /\ stage' = 2 => Settled'
      /\ stage = 2 /\ stage' = 2 => value' = value /\ hreg' = hreg ]_vars

\* C4 witness: the system has settled after a remote write past maxVal was
\* clamped and the table rewritten.
C4_Witness ==
  /\ stage = 2
  /\ \E i \in ParamIdx :
       value[i] = P(i).maxVal /\ hreg[P(i).reg] = toReg(i, P(i).maxVal)

C6_Hysteresis ==
  [][ pc = "inbound" =>
        \A i \in ParamIdx :
          LET candidate == hreg[P(i).reg] * P(i).step
          IN  IF 2 * fabsf(candidate - value[i]) >= P(i).step
              THEN value'[i] = clamp(candidate, P(i).minVal, P(i).maxVal)
              ELSE value'[i] = value[i] ]_vars

\* C6 witness: the inbound pass has taken over a remote raw value that lay
\* at least step/2 from the value.
C6_Witness ==
  /\ pc = "encoder"
  /\ remote.i # -1
  /\ hreg[P(remote.i).reg] = remote.x
  /\ value[remote.i] = clamp(remote.x * P(remote.i).step,
                             P(remote.i).minVal, P(remote.i).maxVal)
  /\ value[remote.i] # P(remote.i).value

\* round(value/step) held to the 16-bit range
ClampedRaw(i, v) ==
  clamp(lroundf(v, P(i).step), 0, UINT16_MOD - 1)

\* C7: toReg is clamped to the 16-bit range: it returns round(value/step) when
\* that lies in [0, 65535], 65535 when it is larger, 0 when it is negative.
C7_ToRegClamped ==
  codec.at = "raw" => codec.raw = ClampedRaw(codec.i, codec.v)

\* C8: codec round trip: for value in {minVal, midpoint, maxVal},
\* fromReg(p, toReg(p)) differs from the value by less than step.
C8_RoundTrip ==
  codec.at = "back" =>
    LET i == codec.i
    IN  codec.v \in { P(i).minVal, (P(i).minVal + P(i).maxVal) \div 2, P(i).maxVal }
          => fabsf(codec.back - codec.v) < P(i).step

\* the Select column of the transition table
SelectTable ==
  CASE screen = "HOME" -> screen' = "PARAM_LIST" /\ listIndex' = 0
    [] screen = "PARAM_LIST" -> screen' = "PARAM_EDIT" /\ editIndex' = listIndex
    [] screen = "PARAM_EDIT" ->
         /\ screen' = "PARAM_LIST"
         /\ hreg' = [hreg EXCEPT ![P(editIndex).reg] = toReg(editIndex, value[editIndex])]
    [] screen = "SERIAL_MENU" -> screen' = "SERIAL_EDIT"
    [] screen = "SERIAL_EDIT" -> screen' = "SERIAL_MENU" /\ link' = scfg

\* the Back column of the transition table
BackTable ==
  CASE screen = "HOME" -> screen' = "HOME"
    [] screen = "PARAM_LIST" -> screen' = "HOME"
    [] screen = "PARAM_EDIT" -> screen' = "PARAM_LIST"
    [] screen = "SERIAL_MENU" -> screen' = "HOME"
    [] screen = "SERIAL_EDIT" -> screen' = "SERIAL_MENU"

\* C9: the Select/Back transition table.  A handled Select or Back moves the
\* screen as the table says (Select in ParamEdit writes the register of
\* editIndex, Select in SerialEdit applies the serial configuration); no step
\* other than a button event changes the screen; ParamEdit is entered only
\* from ParamList and SerialEdit only from SerialMenu.
C9_TransitionTable ==
  [][ /\ ev' = "select" => SelectTable
      /\ ev' = "back" => BackTable
      /\ screen' # screen => ev' \in {"select", "back", "long"}
      /\ screen' = "PARAM_EDIT" /\ screen # "PARAM_EDIT" => screen = "PARAM_LIST"
      /\ screen' = "SERIAL_EDIT" /\ screen # "SERIAL_EDIT" => screen = "SERIAL_MENU" ]_vars

\* C9 witness: Select was handled in ParamEdit (the cursor is not the 0 that
\* Select in Home sets): the screen is ParamList again and the register holds
\* the parameter's value, which differs from the initial one.
C9_Witness ==
  /\ ev = "select"
  /\ screen = "PARAM_LIST"
  /\ listIndex # 0
  /\ editIndex = listIndex
  /\ value[editIndex] # P(editIndex).value
  /\ hreg[P(editIndex).reg] = toReg(editIndex, value[editIndex])

\* C10 as claimed: Back in ParamEdit after an adjustment leads to ParamList
\* with every register still holding the raw value it held before the
\* adjustment was made (remote writes made since apart).
C10_RegistersAsBeforeAdjustment ==
  [][ ev' = "back" /\ screen = "PARAM_EDIT" /\ adjust.on =>
        screen' = "PARAM_LIST" /\ hreg' = adjust.before ]_vars

\* C10, amended: Back in ParamEdit after an adjustment leads to ParamList and
\* writes no register itself: every register holds the raw value it held just
\* before the press, and the adjusted value is not reverted by Back.
C10_BackWritesNoRegister ==
  [][ ev' = "back" /\ screen = "PARAM_EDIT" /\ adjust.on =>
        screen' = "PARAM_LIST" /\ hreg' = hreg /\ value' = value ]_vars

\* C10 witness: Back was handled in ParamEdit (the only way Back leads to
\* ParamList) while the value was adjusted and the register still held the
\* initial raw value.
C10_Witness ==
  /\ ev = "back"
  /\ screen = "PARAM_LIST"
  /\ value[editIndex] # P(editIndex).value
  /\ hreg[P(editIndex).reg] = toReg(editIndex, P(editIndex).value)

\* C11: a long press of Select that began in Home, with no other input during
\* the press, leaves the screen at SerialMenu with serialField = Baud once
\* the long-press event has been handled
C11_LongPressOpensSerialMenu ==
  [][ (ev' = "long" /\ heldFromHome)
        => (screen' = "SERIAL_MENU" /\ serialField' = BAUD) ]_vars

\* C12: the link settings in force change only in the step that handles
\* Select in SerialEdit, and after that step they equal all four fields of
\* scfg; rotation and Back in SerialEdit change no setting in force
C12_LinkFollowsApply ==
  [][ /\ link' # link => (ev' = "select" /\ screen = "SERIAL_EDIT")
      /\ (ev' = "select" /\ screen = "SERIAL_EDIT")
           => (link' = scfg' /\ scfg' = scfg)
      /\ (screen = "SERIAL_EDIT" /\ ev' \in {"rot", "back"}) => link' = link
    ]_vars

\* Select has just applied a configuration that differs from the boot one in
\* SerialEdit
C12_Witness ==
  /\ ev = "select"
  /\ screen = "SERIAL_MENU"
  /\ link = scfg
  /\ link # scfgInit

\* C13: the step that handles Select in SerialEdit changes no register and
\* no parameter value; registers are written only by a remote write in
\* mb.task(), by an outbound pass, or by the ParamEdit save
C13_ApplyLeavesData ==
  [][ /\ (ev' = "select" /\ screen = "SERIAL_EDIT")
           => (hreg' = hreg /\ value' = value)
      /\ hreg' # hreg
           => \/ pc = "task"
              \/ pc = "outbound"
              \/ (ev' = "select" /\ screen = "PARAM_EDIT")
    ]_vars

\* the serial settings have just been applied while a register holds
\* something other than its boot value
C13_Witness ==
  /\ ev = "select"
  /\ screen = "SERIAL_MENU"
  /\ pc = "btnBack"
  /\ hreg # hregInit

\* the table entries above and below a baud rate
BaudsAbove(b) == { BAUDS[k] : k \in { m \in 1 .. BAUD_COUNT : BAUDS[m] > b } }
BaudsBelow(b) == { BAUDS[k] : k \in { m \in 1 .. BAUD_COUNT : BAUDS[m] < b } }

\* C14: a rotation in SerialEdit with the Baud field selected moves scfg.baud
\* to the adjacent entry of 1200, 2400, 4800, 9600, 19200, 38400, 57600,
\* 115200 in the direction of the rotation, whatever its magnitude, and
\* leaves it where it is at either end of the table; 9600 turned down gives
\* 4800
C14_BaudStepsClamped ==
  [][ (ev' = "rot" /\ screen = "SERIAL_EDIT" /\ serialField = BAUD)
        => LET b == scfg.baud
               nb == scfg'.baud
           IN  /\ encDiff > 0 =>
                    IF BaudsAbove(b) = {} THEN nb = b
                    ELSE nb \in BaudsAbove(b) /\ \A x \in BaudsAbove(b) : nb <= x
               /\ encDiff < 0 =>
                    IF BaudsBelow(b) = {} THEN nb = b
                    ELSE nb \in BaudsBelow(b) /\ \A x \in BaudsBelow(b) : x <= nb
               /\ (b = 9600 /\ encDiff < 0) => nb = 4800
    ]_vars

\* a rotation has just been handled on the Baud field and the last entry of
\* the table is selected
C14_Witness ==
  /\ ev = "rot"
  /\ screen = "SERIAL_EDIT"
  /\ serialField = BAUD
  /\ scfg.baud = BAUDS[BAUD_COUNT]

\* the parity after the given one in the order N, E, O, N
ParityAfter(p) == CASE p = "N" -> "E" [] p = "E" -> "O" [] OTHER -> "N"
\* the parity before the given one in that order
ParityBefore(p) == CASE p = "N" -> "O" [] p = "O" -> "E" [] OTHER -> "N"

\* C15: a rotation in SerialEdit with the Parity field selected moves
\* scfg.parity N -> E -> O -> N when positive and N -> O -> E -> N when
\* negative; three rotations the same way give the parity back, and a
\* positive rotation undoes a negative one and conversely
C15_ParityCycles ==
  [][ (ev' = "rot" /\ screen = "SERIAL_EDIT" /\ serialField = PARITY)
        => LET p == scfg.parity
               d == encDiff
           IN  /\ d > 0 => scfg'.parity = ParityAfter(p)
               /\ d < 0 => scfg'.parity = ParityBefore(p)
               /\ ParityRotate(ParityRotate(scfg'.parity, d), d) = p
               /\ ParityRotate(scfg'.parity, -d) = p
               /\ ParityRotate(ParityRotate(p, -d), d) = p
    ]_vars

\* a rotation has just been handled on the Parity field and selected N while
\* the configuration in force has parity O
C15_Witness ==
  /\ ev = "rot"
  /\ screen = "SERIAL_EDIT"
  /\ serialField = PARITY
  /\ scfg.parity = "N"
  /\ link.parity = "O"

\* C16: a rotation in SerialEdit sets scfg.dataBits to 8 when positive and 7
\* when negative with the DataBits field selected, and scfg.stopBits to 2
\* when positive and 1 when negative with the StopBits field selected,
\* whatever the field held; a second rotation the same way changes nothing
C16_BitsSetBySign ==
  [][ (ev' = "rot" /\ screen = "SERIAL_EDIT")
        => /\ serialField = DATABITS
                => scfg'.dataBits = (IF encDiff > 0 THEN 8 ELSE 7)
           /\ serialField = STOPBITS
                => scfg'.stopBits = (IF encDiff > 0 THEN 2 ELSE 1)
           /\ serialField \in {DATABITS, STOPBITS}
                => SerialRotate(scfg', serialField, encDiff) = scfg'
    ]_vars

\* a rotation has just been handled on the StopBits field and left 2 stop
\* bits, with 7 data bits selected before
C16_Witness ==
  /\ ev = "rot"
  /\ screen = "SERIAL_EDIT"
  /\ serialField = STOPBITS
  /\ scfg.stopBits = 2
  /\ scfg.dataBits = 7

\* C17: an outbound pass runs only when at least 300 ms of millis() have gone
\* by since the pass before it, whatever happened in between; a pass writes
\* a register only if it differs from toReg(value) of its parameter, and
\* after the pass every register equals toReg(value) of its parameter
C17_OutboundThrottle ==
  [][ pc = "outbound"
        => /\ elapsed < SYNC_MS => (elapsed' = elapsed /\ hreg' = hreg)
           /\ elapsed' = 0
                => \A i \in ParamIdx :
                     /\ hreg'[P(i).reg] = toReg(i, value[i])
                     /\ hreg'[P(i).reg] # hreg[P(i).reg]
                          => hreg[P(i).reg] # toReg(i, value[i])
    ]_vars

\* a pass has just written a locally edited value to its register
C17_Witness ==
  /\ pc = "task"
  /\ elapsed = 0
  /\ edited.i # -1
  /\ edited.pushed
  /\ hreg[P(edited.i).reg] = toReg(edited.i, edited.v)
  /\ hreg # hregInit

\* the ranges of the two cursors, the field selector and the serial
\* configuration
CursorConfigRange ==
  /\ listIndex \in 0 .. 6
  /\ editIndex \in 0 .. 6
  /\ serialField \in {BAUD, PARITY, DATABITS, STOPBITS}
  /\ scfg.baud \in {1200, 2400, 4800, 9600, 19200, 38400, 57600, 115200}
  /\ scfg.dataBits \in {7, 8}
  /\ scfg.parity \in {"N", "E", "O"}
  /\ scfg.stopBits \in {1, 2}

\* C18: in every reachable state listIndex and editIndex are in 0..6,
\* serialField is one of the four fields, baud is one of the eight table
\* values, dataBits is 7 or 8, parity is N, E or O and stopBits is 1 or 2; a
\* rotation of any magnitude moves listIndex and serialField by at most one
\* position
C18_CursorConfigInRange ==
  [][ /\ CursorConfigRange
      /\ CursorConfigRange'
      /\ ev' = "rot"
           => /\ listIndex' - listIndex \in {-1, 0, 1}
              /\ serialField' - serialField \in {-1, 0, 1}
    ]_vars

\* a rotation has just been handled in ParamList and the cursor is on the
\* last parameter
C18_Witness ==
  /\ ev = "rot"
  /\ screen = "PARAM_LIST"
  /\ listIndex = PARAM_COUNT - 1

\* the name of the scfg member a serial field selects
FieldName(sf) ==
  CASE sf = BAUD -> "baud"
    [] sf = PARITY -> "parity"
    [] sf = DATABITS -> "dataBits"
    [] OTHER -> "stopBits"

\* C19: a handled rotation never changes the screen, a register, the
\* settings in force or editIndex, and leaves the encoder baseline at the
\* current reading; in Home it changes nothing else either, in ParamList only
\* listIndex, in ParamEdit only params[editIndex].value, in SerialMenu only
\* serialField, in SerialEdit only the scfg member that serialField selects
C19_RotationFrame ==
  [][ ev' = "rot"
        => /\ screen' = screen
           /\ encDiff' = 0
           /\ hreg' = hreg
           /\ link' = link
           /\ editIndex' = editIndex
           /\ screen # "PARAM_LIST" => listIndex' = listIndex
           /\ screen # "SERIAL_MENU" => serialField' = serialField
           /\ screen # "PARAM_EDIT" => value' = value
           /\ screen # "SERIAL_EDIT" => scfg' = scfg
           /\ screen = "PARAM_EDIT"
                => \A i \in ParamIdx \ {editIndex} : value'[i] = value[i]
           /\ screen = "SERIAL_EDIT"
                => \A f \in {"baud", "parity", "dataBits", "stopBits"} \ {FieldName(serialField)} :
                     scfg'[f] = scfg[f]
    ]_vars

\* a rotation has just been handled in ParamEdit and changed the value of a
\* parameter other than the first
C19_Witness ==
  /\ ev = "rot"
  /\ screen = "PARAM_EDIT"
  /\ editIndex # 0
  /\ value[editIndex] # P(editIndex).value
  /\ encDiff = 0

\* parameter i's register holds a raw value that decodes above maxVal
OverRange(i) == fromReg(i, hreg[P(i).reg]) > P(i).maxVal

\* C20: when a register holds a remotely written raw value that decodes
\* above maxVal, the inbound pass leaves value at maxVal, and an outbound
\* pass that finds value still at maxVal overwrites the register with
\* toReg(maxVal), which decodes to maxVal and is not the raw value written
C20_OverRangeNormalised ==
  [][ /\ pc = "inbound"
           => \A i \in ParamIdx : OverRange(i) => value'[i] = P(i).maxVal
      /\ (pc = "outbound" /\ elapsed' = 0)
           => \A i \in ParamIdx :
                (OverRange(i) /\ value[i] = P(i).maxVal)
                  => /\ hreg'[P(i).reg] = toReg(i, P(i).maxVal)
                     /\ fromReg(i, hreg'[P(i).reg]) = P(i).maxVal
                     /\ hreg'[P(i).reg] # hreg[P(i).reg]
    ]_vars

\* the outbound pass of the tick in which a master wrote the first raw value
\* past maxVal has just replaced it by toReg(maxVal)
C20_Witness ==
  /\ pc = "task"
  /\ elapsed = 0
  /\ \E i \in ParamIdx :
       /\ remote = [i |-> i, x |-> P(i).maxVal \div P(i).step + 1]
       /\ value[i] = P(i).maxVal
       /\ hreg[P(i).reg] = toReg(i, P(i).maxVal)
       /\ hreg[P(i).reg] # remote.x

=============================================================================
